---------------------------- MODULE Spec2Model ----------------------------
(***************************************************************************)
(* Model of the concurrent core of http-client.go:                         *)
(*   - package limitmap (src/limitmap/limitmap.go): Semaphore and LimitMap  *)
(*   - the dispatcher of the worker's main package (stdinReader,            *)
(*     handleSigInt, reportWriter, main, processUrl)                        *)
(*   - Worker.Fetch with AskRobots and Download, and Client.Fetch           *)
(*   - heroshi.Transport: one round trip, and its connections and pool.     *)
(* Goroutines are modelled by a program counter each; one action is one     *)
(* atomic step of the code: a lock acquisition together with the code that  *)
(* runs under that lock up to the next point another goroutine can observe. *)
(***************************************************************************)
EXTENDS Integers, Sequences, FiniteSets, TLC

(***************************************************************************)
(* Bounds of the model.                                                     *)
(***************************************************************************)
\* Number of goroutines calling LimitMap.Acquire / LimitMap.Release.
NumG == 2
\* Largest max passed to LimitMap.Acquire.
MaxLimit == 1
\* Width of Go's uint in the model (real builds: 32 or 64).
UintBits == 8
\* --jobs (max_concurrency) of the dispatcher.
Jobs == 1
\* Largest number of input lines read from standard input.
MaxLines == 2
\* Largest --redirects (Worker.FollowRedirects) tried.
MaxRedirects == 1
\* Largest number of nested Worker.Fetch calls followed.
MaxDepth == 3
\* The clock stops after this many ticks.
MaxTime == 3
\* Clock ticks per millisecond.
TicksPerMs == 2
\* Largest ConnectTimeout, WriteTimeout, ReadTimeout tried, in ticks.
MaxTimeout == 2
\* Largest ReadLimit tried, in bytes.
MaxReadLimit == 3
\* Largest response the server sends: status line and headers, and body.
MaxHeader == 2
MaxBody == 2
\* Number of connections a Transport dials before the model stops dialling.
MaxConns == 3
\* Number of processUrl tasks that call worker.Fetch at the same time (the
\* dispatcher admits up to --jobs of them).
Fetchers == 2

G == 1..NumG
\* The keys (hosts) the callers use.
Keys == {"a", "b"}
NoKey == ""
\* Semaphore objects on the heap.  Every reachable semaphore is referenced by
\* a goroutine that is inside, or between, Acquire and Release, so NumG
\* objects are enough; an unreachable one is collected and its slot reused.
Sems == 1..NumG
UintMod == 2 ^ UintBits

NoPanic == "none"

VARIABLES
    \* ---- package limitmap ----
    lk,        \* LimitMap.lk: the goroutine holding it, 0 when free
    limits,    \* LimitMap.limits: key -> semaphore, 0 when the key is absent
    wg,        \* LimitMap.wg: the WaitGroup's counter
    refs,      \* Semaphore.refs
    max,       \* Semaphore.max
    value,     \* Semaphore.value (uint)
    mu,        \* Semaphore.wait.L: the goroutine holding it, 0 when free
    wait,      \* Semaphore.wait: goroutines parked in Cond.Wait, in FIFO order
    pc,        \* position of each goroutine
    key,       \* the key argument of the goroutine's current call / held slot
    l,         \* the local l (semaphore pointer) of the current call, 0 when none
    panicked,  \* NoPanic, or the message of the panic that ended the process
    wpc,       \* position of the goroutine calling LimitMap.Wait
    prior      \* history: the goroutines whose Acquire call started before the
               \* last Wait call and was not matched by a finished Release when
               \* Wait returned (or now, while Wait is still blocked)

lmVars == <<lk, limits, wg, refs, max, value, mu, wait, pc, key, l,
            panicked, wpc, prior>>

VARIABLES
    \* ---- the dispatcher (package main) ----
    nread,         \* stdinReader: number of lines read; the line at hand is line nread
    kind,          \* stdinReader: what each line read was: "blank", "bad" (url.Parse fails), "url"
    rpc,           \* stdinReader: position
    rEof,          \* stdinReader: read_err == io.EOF for the line at hand
    urlsClosed,    \* the urls channel: "no", or the goroutine that closed it
    sigint,        \* history: a SIGINT has arrived
    sig_int_chan,  \* number of signals buffered in sig_int_chan (capacity 1)
    hpc,           \* handleSigInt: position
    mpc,           \* main: position
    murl,          \* main: the loop variable url (the line it came from), 0 when none
    mn,            \* main: the value taken out of busy_count
    limit,         \* number of values buffered in the limit channel
    busy_count,    \* content of the busy_count channel (capacity 1)
    reports,       \* content of the reports channel: keys of records, Nil for a nil record
    reportsClosed, \* close(reports) has run
    tpc,           \* processUrl of each URL: position
    tn,            \* processUrl: the value taken out of busy_count
    diag,          \* standard error: encoding diagnostics logged per key
    wrpc,          \* reportWriter: position
    stdout,        \* standard output: records written per key
    crash          \* NoPanic, or the message of the panic that ended the process

dispVars == <<nread, kind, rpc, rEof, urlsClosed, sigint, sig_int_chan, hpc, mpc, murl, mn,
              limit, busy_count, reports, reportsClosed, tpc, tn, diag, wrpc, stdout, crash>>

VARIABLES
    \* ---- Worker and Client (one call of Worker.Fetch) ----
    FollowRedirects, \* Worker.FollowRedirects (--redirects)
    SkipRobots,      \* Worker.SkipRobots (--skip-robots)
    wst,             \* "flags", "ready", "running", "returned"
    stack,           \* the active calls of Worker.Fetch, outermost first
    ret,             \* the result a nested Worker.Fetch has just returned to AskRobots
    now,             \* the clock, in ticks
    finished,        \* history: the outermost call as it was when it returned
    wcrash           \* NoPanic, or the message of the panic that ended the process

wkVars == <<FollowRedirects, SkipRobots, wst, stack, ret, now, finished, wcrash>>

VARIABLES
    \* ---- heroshi.Transport (one round trip and the reading of its body) ----
    options,    \* RequestOptions: ConnectTimeout, WriteTimeout, ReadTimeout, ReadLimit
    phase,      \* "idle", "connect", "write", "read_header", "body", "failed", "closed"
    tnow,       \* the clock, in ticks
    pstart,     \* when the phase at hand started
    expired,    \* history: the phase whose deadline passed, "" when none
    rterr,      \* the error RoundTripOptions returned
    response,   \* RoundTripOptions returned a response
    sent,       \* what the server sends: bytes of status line and headers, and of body
    got,        \* bytes read from the connection
    bodyRead,   \* body bytes handed to the caller of response.Body.Read
    bodyEnd     \* how reading the body ended: "open", "eof", "timeout"

trVars == <<options, phase, tnow, pstart, expired, rterr, response, sent, got, bodyRead, bodyEnd>>

VARIABLES
    \* ---- heroshi.Transport: its connections to one host and its idle pool ----
    cstate,     \* state of each connection: "fresh" (not dialled), "busy", "idle", "closed"
    cop,        \* the call at work on a connection: "none", "write", "read"
    cresult,    \* what the last ReadResponse on the connection returned: 0 (nothing
                \* yet), a status code, or -1 for an error
    idle,       \* the idle pool of the host: connections, oldest first
    closedRead  \* history: for a connection closed while its ReadResponse was
                \* pending, the number of connections dialled by then; else 0

poolVars == <<cstate, cop, cresult, idle, closedRead>>

VARIABLES
    \* ---- Client.Fetch called by several tasks on the one Worker ----
    fetch_lk,   \* Client.fetch_lk: the task holding it, 0 when free
    cpc,        \* position of each task: "idle", "lock", "select", "returned"
    fpc,        \* position of the goroutine that runs client.fetch for the task:
                \* "none", "do" (http_client.Do), "copy" (io.Copy of the body), "send"
    chost,      \* host of the task's request, "" when it has none
    cres,       \* the task's result: "none", "ok", "error"
    ccrash      \* NoPanic, or the message of the panic that ended the process

clVars == <<fetch_lk, cpc, fpc, chost, cres, ccrash>>

VARIABLES
    \* ---- LimitMap.Size ----
    size,       \* what the last call of LimitMap.Size returned: keys and total
    sized       \* history: the number of goroutines that held a slot when that
                \* call took the map lock

szVars == <<size, sized>>

\* What the actions of one component leave alone.
notLimitMap == <<dispVars, wkVars, trVars, poolVars, clVars, szVars>>
notDispatcher == <<lmVars, wkVars, trVars, poolVars, clVars, szVars>>
notWorker == <<lmVars, dispVars, trVars, poolVars, clVars, szVars>>
notTransport == <<lmVars, dispVars, wkVars, poolVars, clVars, szVars>>
notPool == <<lmVars, dispVars, wkVars, trVars, clVars, szVars>>
notClient == <<lmVars, dispVars, wkVars, trVars, poolVars, szVars>>
notSize == <<lmVars, dispVars, wkVars, trVars, poolVars, clVars>>

vars == <<lmVars, dispVars, wkVars, trVars, poolVars, clVars, szVars>>

-----------------------------------------------------------------------------
(***************************************************************************)
(* package limitmap                                                         *)
(***************************************************************************)

\* NewLimitMap, and no goroutine inside any call.
LMInit ==
    /\ lk = 0
    /\ limits = [k \in Keys |-> 0]
    /\ wg = 0
    /\ refs = [s \in Sems |-> 0]
    /\ max = [s \in Sems |-> 0]
    /\ value = [s \in Sems |-> 0]
    /\ mu = [s \in Sems |-> 0]
    /\ wait = [s \in Sems |-> <<>>]
    /\ pc = [g \in G |-> "idle"]
    /\ key = [g \in G |-> NoKey]
    /\ l = [g \in G |-> 0]
    /\ panicked = NoPanic
    /\ wpc = "idle"
    /\ prior = {}

\* The max every caller passes for key k (the callers agree on it).
LimitOf(k) == IF k = "a" THEN 1 ELSE MaxLimit

InMap(s) == \E k \in Keys : limits[k] = s

\* A semaphore object no pointer leads to: not in the map, in no local l.
Unreachable(s) == ~InMap(s) /\ \A g \in G : l[g] # s

\* The object NewSemaphore allocates.
NewSem == CHOOSE s \in Sems : Unreachable(s) /\ \A t \in Sems : Unreachable(t) => s <= t

\* Positions between wg.Add(1) and wg.Done() of one Acquire/Release pair.
CountedPcs == {"sa_lock", "sa_wait", "sa_woken", "holding", "r_refs", "sr_lock",
               "sr_signal", "r_done"}

Counted == {g \in G : pc[g] \in CountedPcs}

\* Goroutines that returned from LimitMap.Acquire(k, ..) and have not called Release(k).
Holders(k) == {g \in G : pc[g] = "holding" /\ key[g] = k}

Running == panicked = NoPanic

\* ---- LimitMap.Acquire ----

\* m.lk.Lock(); l, ok := m.limits[key]; if !ok { l = NewSemaphore(max); m.limits[key] = l }
LMAcquireFind(g, k) ==
    /\ Running
    /\ pc[g] = "idle"
    /\ lk = 0
    /\ lk' = g
    /\ key' = [key EXCEPT ![g] = k]
    /\ IF limits[k] # 0
         THEN /\ l' = [l EXCEPT ![g] = limits[k]]
              /\ UNCHANGED <<limits, refs, max, value, mu, wait>>
         ELSE /\ l' = [l EXCEPT ![g] = NewSem]
              /\ limits' = [limits EXCEPT ![k] = NewSem]
              /\ refs' = [refs EXCEPT ![NewSem] = 0]
              /\ max' = [max EXCEPT ![NewSem] = LimitOf(k)]
              /\ value' = [value EXCEPT ![NewSem] = 0]
              /\ mu' = [mu EXCEPT ![NewSem] = 0]
              /\ wait' = [wait EXCEPT ![NewSem] = <<>>]
    /\ pc' = [pc EXCEPT ![g] = "a_refs"]
    /\ UNCHANGED <<wg, panicked, wpc, prior>>
    /\ UNCHANGED notLimitMap

\* The slip of a deferred m.lk.Unlock(): the map lock stays with the goroutine
\* while it is in the semaphore.
LkAfterRefsDeferred(g) == g

\* m.lk.Unlock() comes before l.Acquire() and before l.Release()
LkAfterRefs(g) == 0

\* The slip of an Acquire that does not count itself in refs.
RefsAfterAcquireUncounted(r) == r

\* l.refs++
RefsAfterAcquire(r) == r + 1

\* l.refs++; m.lk.Unlock()
LMAcquireRefs(g) ==
    /\ Running
    /\ pc[g] = "a_refs"
    /\ refs' = [refs EXCEPT ![l[g]] = RefsAfterAcquire(@)]
    /\ lk' = LkAfterRefs(g)
    /\ pc' = [pc EXCEPT ![g] = "a_add"]
    /\ UNCHANGED <<limits, wg, max, value, mu, wait, key, l, panicked, wpc, prior>>
    /\ UNCHANGED notLimitMap

\* m.wg.Add(1)
LMAcquireAdd(g) ==
    /\ Running
    /\ pc[g] = "a_add"
    /\ wg' = wg + 1
    /\ pc' = [pc EXCEPT ![g] = "sa_lock"]
    /\ UNCHANGED <<lk, limits, refs, max, value, mu, wait, key, l, panicked, wpc, prior>>
    /\ UNCHANGED notLimitMap

\* ---- Semaphore.Acquire ----

\* The off-by-one slip: a full semaphore still admits one more.
CanAcquireOffByOne(s) == value[s] <= max[s]

\* if uint(s.value)+1 <= s.max
CanAcquire(s) == (value[s] + 1) % UintMod <= max[s]

\* s.value++; return s.value (the deferred Unlock runs), and back in
\* LimitMap.Acquire: if x := l.Acquire(); x < 0 || x > l.max { panic("oia") }
SemAcquireTake(g) ==
    LET s == l[g]
        x == (value[s] + 1) % UintMod
    IN  /\ value' = [value EXCEPT ![s] = x]
        /\ IF x < 0 \/ x > max[s]
             THEN /\ panicked' = "oia"
                  /\ UNCHANGED <<pc, l>>
             ELSE /\ pc' = [pc EXCEPT ![g] = "holding"]
                  /\ l' = [l EXCEPT ![g] = 0]
                  /\ UNCHANGED panicked
        /\ UNCHANGED <<wait, mu>>

\* s.wait.Wait(): unlock, join the notify list, park
SemAcquirePark(g) ==
    /\ wait' = [wait EXCEPT ![l[g]] = Append(@, g)]
    /\ pc' = [pc EXCEPT ![g] = "sa_wait"]
    /\ UNCHANGED <<value, mu, l, panicked>>

\* One iteration of the for loop of Semaphore.Acquire, the lock held.
SemAcquireLoop(g) ==
    IF CanAcquire(l[g]) THEN SemAcquireTake(g) ELSE SemAcquirePark(g)

\* The slip of taking the slot after a wakeup without looking at value again.
SemAcquireAfterWakeUnchecked(g) == SemAcquireTake(g)

\* The iteration after s.wait.Wait() returned: the predicate is checked again.
SemAcquireAfterWake(g) == SemAcquireLoop(g)

\* s.wait.L.Lock() and the first iteration of the loop
SemAcquire(g) ==
    /\ Running
    /\ pc[g] = "sa_lock"
    /\ mu[l[g]] = 0
    /\ SemAcquireLoop(g)
    /\ UNCHANGED <<lk, limits, wg, refs, max, key, wpc, prior>>
    /\ UNCHANGED notLimitMap

\* s.wait.Wait() returns after a Signal: it locks s.wait.L again and the loop
\* goes round
SemAcquireWake(g) ==
    /\ Running
    /\ pc[g] = "sa_woken"
    /\ mu[l[g]] = 0
    /\ SemAcquireAfterWake(g)
    /\ UNCHANGED <<lk, limits, wg, refs, max, key, wpc, prior>>
    /\ UNCHANGED notLimitMap

\* ---- LimitMap.Release ----

\* The slip of touching the outstanding-operations counter before the lookup
\* has been found to fail.
LMReleaseLookupLate(g, k) ==
    /\ lk' = g
    /\ key' = [key EXCEPT ![g] = k]
    /\ IF limits[k] = 0
         THEN /\ panicked' = "LimitMap: key not in map. Possible reason: Release without Acquire."
              /\ wg' = wg - 1
              /\ UNCHANGED <<pc, l>>
         ELSE /\ l' = [l EXCEPT ![g] = limits[k]]
              /\ pc' = [pc EXCEPT ![g] = "r_refs"]
              /\ UNCHANGED <<panicked, wg>>
    /\ UNCHANGED <<limits, refs, max, value, mu, wait, wpc, prior>>

\* m.lk.Lock(); l, ok := m.limits[key]; if !ok { panic(...) }
LMReleaseLookup(g, k) ==
    /\ lk' = g
    /\ key' = [key EXCEPT ![g] = k]
    /\ IF limits[k] = 0
         THEN /\ panicked' = "LimitMap: key not in map. Possible reason: Release without Acquire."
              /\ UNCHANGED <<pc, l>>
         ELSE /\ l' = [l EXCEPT ![g] = limits[k]]
              /\ pc' = [pc EXCEPT ![g] = "r_refs"]
              /\ UNCHANGED panicked
    /\ UNCHANGED <<limits, wg, refs, max, value, mu, wait, wpc, prior>>

\* LimitMap.Release(key) called by the goroutine that holds a slot for the key
LMReleaseFind(g) ==
    /\ Running
    /\ pc[g] = "holding"
    /\ lk = 0
    /\ LMReleaseLookup(g, key[g])
    /\ UNCHANGED notLimitMap

\* LimitMap.Release(key) called by a goroutine that holds no slot (a caller's
\* logic bug)
LMReleaseUnmatched(g, k) ==
    /\ Running
    /\ pc[g] = "idle"
    /\ lk = 0
    /\ LMReleaseLookup(g, k)
    /\ UNCHANGED notLimitMap

\* The slip of never deleting the entry.
EvictAtNever(r) == FALSE

\* The slip of deleting the entry on every Release, other references or not.
EvictAtAlways(r) == TRUE

\* if l.refs == 0 { delete(m.limits, key) }
EvictAt(r) == r = 0

\* l.refs--; if l.refs < 0 { panic }; if l.refs == 0 { delete }; m.lk.Unlock()
LMReleaseRefs(g) ==
    LET s == l[g]
        r == refs[s] - 1
    IN  /\ Running
        /\ pc[g] = "r_refs"
        /\ refs' = [refs EXCEPT ![s] = r]
        /\ IF r < 0
             THEN /\ panicked' = "LimitMap internal error: refs < 0."
                  /\ UNCHANGED <<limits, lk, pc>>
             ELSE /\ limits' = IF EvictAt(r) THEN [limits EXCEPT ![key[g]] = 0] ELSE limits
                  /\ lk' = LkAfterRefs(g)
                  /\ pc' = [pc EXCEPT ![g] = "sr_lock"]
                  /\ UNCHANGED panicked
        /\ UNCHANGED <<wg, max, value, mu, wait, key, l, wpc, prior>>
        /\ UNCHANGED notLimitMap

\* ---- Semaphore.Release ----

\* s.wait.L.Lock(); s.value-- (on a uint: 0 wraps around to the largest uint)
SemReleaseDec(g) ==
    /\ Running
    /\ pc[g] = "sr_lock"
    /\ mu[l[g]] = 0
    /\ mu' = [mu EXCEPT ![l[g]] = g]
    /\ value' = [value EXCEPT ![l[g]] = (@ - 1) % UintMod]
    /\ pc' = [pc EXCEPT ![g] = "sr_signal"]
    /\ UNCHANGED <<lk, limits, wg, refs, max, wait, key, l, panicked, wpc, prior>>
    /\ UNCHANGED notLimitMap

\* The slip of a Release that wakes nobody.
SignalledNone(q) == {}

\* s.wait.Signal() on the queue q of parked goroutines wakes the one that has
\* waited longest, if any.
Signalled(q) == IF q # <<>> THEN {Head(q)} ELSE {}

\* if s.value < 0 { panic }; s.wait.Signal(); return (the deferred Unlock runs).
SemReleaseSignal(g) ==
    LET s == l[g]
        woken == Signalled(wait[s])
    IN  /\ Running
        /\ pc[g] = "sr_signal"
        /\ IF value[s] < 0
             THEN /\ panicked' = "Semaphore Release without Acquire"
                  /\ UNCHANGED <<wait, pc, mu>>
             ELSE /\ mu' = [mu EXCEPT ![s] = 0]
                  /\ wait' = [wait EXCEPT ![s] = SelectSeq(@, LAMBDA h : h \notin woken)]
                  /\ pc' = [h \in G |-> IF h = g THEN "r_done"
                                        ELSE IF h \in woken THEN "sa_woken"
                                        ELSE pc[h]]
                  /\ UNCHANGED panicked
        /\ UNCHANGED <<lk, limits, wg, refs, max, value, key, l, wpc, prior>>
        /\ UNCHANGED notLimitMap

\* The named result of Semaphore.Release is never assigned: it returns 0.
SemReleaseResult == 0

\* if x := l.Release(); x < 0 || x > l.max { panic("oir") }; m.wg.Done()
\* (sync.WaitGroup panics when its counter would go negative)
LMReleaseDone(g) ==
    /\ Running
    /\ pc[g] = "r_done"
    /\ IF SemReleaseResult < 0 \/ SemReleaseResult > max[l[g]]
         THEN /\ panicked' = "oir"
              /\ UNCHANGED <<wg, pc, key, l, prior>>
         ELSE IF wg - 1 < 0
                THEN /\ panicked' = "sync: negative WaitGroup counter"
                     /\ UNCHANGED <<wg, pc, key, l, prior>>
                ELSE /\ wg' = wg - 1
                     /\ pc' = [pc EXCEPT ![g] = "idle"]
                     /\ key' = [key EXCEPT ![g] = NoKey]
                     /\ l' = [l EXCEPT ![g] = 0]
                     /\ prior' = IF wpc = "waiting" THEN prior \ {g} ELSE prior
                     /\ UNCHANGED panicked
    /\ UNCHANGED <<lk, limits, refs, max, value, mu, wait, wpc>>
    /\ UNCHANGED notLimitMap

\* ---- LimitMap.Wait ----

\* The slip of a barrier that does not look at the counter.
WaitReadyAlways == TRUE

\* m.wg.Wait() returns when the counter is zero
WaitReady == wg = 0

\* A goroutine calls m.Wait() and blocks in m.wg.Wait()
WaitCall ==
    /\ Running
    /\ wpc \in {"idle", "returned"}
    /\ wpc' = "waiting"
    /\ prior' = {g \in G : pc[g] # "idle"}
    /\ UNCHANGED <<lk, limits, wg, refs, max, value, mu, wait, pc, key, l, panicked>>
    /\ UNCHANGED notLimitMap

WaitReturn ==
    /\ Running
    /\ wpc = "waiting"
    /\ WaitReady
    /\ wpc' = "returned"
    /\ UNCHANGED <<lk, limits, wg, refs, max, value, mu, wait, pc, key, l, panicked, prior>>
    /\ UNCHANGED notLimitMap

\* The steps of goroutine g inside LimitMap.Acquire, once it has started, and
\* its LimitMap.Release of the slot it holds.
CallStep(g) ==
    \/ LMAcquireRefs(g)
    \/ LMAcquireAdd(g)
    \/ SemAcquire(g)
    \/ SemAcquireWake(g)
    \/ LMReleaseFind(g)
    \/ LMReleaseRefs(g)
    \/ SemReleaseDec(g)
    \/ SemReleaseSignal(g)
    \/ LMReleaseDone(g)

\* Callers that Release only what they acquired; nobody calls Wait.
LMNextCalls ==
    \/ \E g \in G, k \in Keys : LMAcquireFind(g, k)
    \/ \E g \in G : CallStep(g)

\* Callers that Release only what they acquired, and a caller of Wait.
LMNext ==
    \/ \E g \in G, k \in Keys : LMAcquireFind(g, k)
    \/ \E g \in G : LMAcquireRefs(g)
    \/ \E g \in G : LMAcquireAdd(g)
    \/ \E g \in G : SemAcquire(g)
    \/ \E g \in G : SemAcquireWake(g)
    \/ \E g \in G : LMReleaseFind(g)
    \/ \E g \in G : LMReleaseRefs(g)
    \/ \E g \in G : SemReleaseDec(g)
    \/ \E g \in G : SemReleaseSignal(g)
    \/ \E g \in G : LMReleaseDone(g)
    \/ WaitCall
    \/ WaitReturn

\* Callers that may also Release a key they hold no slot for.
LMNextUnmatched ==
    \/ LMNext
    \/ \E g \in G, k \in Keys : LMReleaseUnmatched(g, k)

\* ---- LimitMap.Size ----

\* No call of Size has returned yet.
NoSize == [keys |-> -1, total |-> -1]

SizeInit ==
    /\ size = NoSize
    /\ sized = 0

\* int(v) of a uint v: the same bits read as a signed number.
ToInt(v) == IF v >= UintMod \div 2 THEN v - UintMod ELSE v

\* for _, l := range m.limits { total += int(l.value) }, over the keys in ks
RECURSIVE SumValues(_)
SumValues(ks) ==
    IF ks = {} THEN 0
    ELSE LET k == CHOOSE x \in ks : TRUE
         IN  ToInt(value[limits[k]]) + SumValues(ks \ {k})

\* The keys in the map.
Present == {k \in Keys : limits[k] # 0}

\* m.lk.Lock(); keys = len(m.limits); the loop over the semaphores, which reads
\* each value without the semaphore's lock; m.lk.Unlock(); return
LMSize ==
    /\ Running
    /\ lk = 0
    /\ size' = [keys |-> Cardinality(Present), total |-> SumValues(Present)]
    /\ sized' = Cardinality({g \in G : pc[g] = "holding"})
    /\ UNCHANGED notSize

\* Callers that Release only what they acquired, and callers of Size.
LMNextSize ==
    \/ LMNextCalls
    \/ LMSize

-----------------------------------------------------------------------------
(***************************************************************************)
(* The dispatcher: stdinReader, handleSigInt, reportWriter, main,           *)
(* processUrl                                                               *)
(***************************************************************************)

Lines == 1..MaxLines
Nil == 0

\* The slip of a limit channel with one slot too many.
LimitCapOneMore == Jobs + 1

\* make(chan bool, max_concurrency)
LimitCap == Jobs
\* make(chan []byte, max_concurrency)
ReportsCap == Jobs

DispInit ==
    /\ nread = 0
    /\ kind = [i \in Lines |-> "none"]
    /\ rpc = "read"
    /\ rEof = FALSE
    /\ urlsClosed = "no"
    /\ sigint = FALSE
    /\ sig_int_chan = 0
    /\ hpc = "wait"
    /\ mpc = "start"
    /\ murl = 0
    /\ mn = 0
    /\ limit = 0
    /\ busy_count = <<>>
    /\ reports = <<>>
    /\ reportsClosed = FALSE
    /\ tpc = [i \in Lines |-> "none"]
    /\ tn = [i \in Lines |-> 0]
    /\ diag = [i \in Lines |-> 0]
    /\ wrpc = "range"
    /\ stdout = [i \in Lines |-> 0]
    /\ crash = NoPanic

\* The process runs: no panic, and main has not returned.
Alive == crash = NoPanic /\ mpc # "returned"

\* The slip of giving up after the first json.Marshal failure.
EncodeResultNoRecovery(k, fails) ==
    [encoded |-> IF fails >= 1 THEN Nil ELSE k,
     diags   |-> IF fails >= 2 THEN 2 ELSE fails]

\* encodeResult(key, result), given how many of its json.Marshal calls fail: the
\* record (Nil after two failures) and the diagnostics it logs.
EncodeResult(k, fails) ==
    [encoded |-> IF fails >= 2 THEN Nil ELSE k,
     diags   |-> IF fails >= 2 THEN 2 ELSE fails]

\* ---- stdinReader ----

\* Next: if read_err == io.EOF { return }, and then the deferred close(urls)
StdinNext(eof) == IF eof THEN "close" ELSE "read"

\* The slip of skipping an unparseable line like a blank one.
AfterLineSkipBad(k, eof) ==
    CASE k = "blank" -> StdinNext(eof)
      [] k = "bad"   -> StdinNext(eof)
      [] k = "url"   -> "send_url"

\* What stdinReader does with the trimmed line: a blank line goes to Next, a
\* line url.Parse rejects gets a report, a URL goes to urls.
AfterLine(k, eof) ==
    CASE k = "blank" -> StdinNext(eof)
      [] k = "bad"   -> "send_report"
      [] k = "url"   -> "send_url"

\* ErrorResult(url, reason)
ErrorResult(u, reason) ==
    [url |-> u, success |-> FALSE, status |-> <<reason>>, status_code |-> 0,
     fetch_time |-> 0, total_time |-> 0]

\* The success, status and status_code fields of the record encodeResult
\* makes of a result when `fails` of its json.Marshal calls fail (one failure:
\* the recovery report; two: no record).
ReportFields(result, fails) ==
    IF fails = 0 THEN result
    ELSE [result EXCEPT !.success = FALSE, !.status = <<"encoding error">>, !.status_code = 0]

\* ReadBytes gives a line, with io.EOF or not; the line is blank, fails
\* url.Parse (ErrorResult, encodeResult, then reports <- report_json) or parses
\* (then urls <- line_url).
StdinReadLine(k, eof, fails) ==
    /\ Alive
    /\ rpc = "read"
    /\ nread < MaxLines
    /\ fails > 0 => k = "bad"
    /\ nread' = nread + 1
    /\ kind' = [kind EXCEPT ![nread + 1] = k]
    /\ rEof' = eof
    /\ diag' = IF k = "bad"
                 THEN [diag EXCEPT ![nread + 1] = EncodeResult(nread + 1, fails).diags]
                 ELSE diag
    /\ rpc' = AfterLine(k, eof)
    /\ UNCHANGED <<urlsClosed, sigint, sig_int_chan, hpc, mpc, murl, mn, limit, busy_count,
                   reports, reportsClosed, tpc, tn, wrpc, stdout, crash>>
    /\ UNCHANGED notDispatcher

\* ReadBytes gives no more data and io.EOF
StdinReadEof ==
    /\ Alive
    /\ rpc = "read"
    /\ rEof' = TRUE
    /\ rpc' = StdinNext(TRUE)
    /\ UNCHANGED <<nread, kind, urlsClosed, sigint, sig_int_chan, hpc, mpc, murl, mn, limit,
                   busy_count, reports, reportsClosed, tpc, tn, diag, wrpc, stdout, crash>>
    /\ UNCHANGED notDispatcher

\* ReadBytes fails with another error: panic("At ReadBytes")
StdinReadError ==
    /\ Alive
    /\ rpc = "read"
    /\ crash' = "At ReadBytes"
    /\ UNCHANGED <<nread, kind, rpc, rEof, urlsClosed, sigint, sig_int_chan, hpc, mpc, murl,
                   mn, limit, busy_count, reports, reportsClosed, tpc, tn, diag, wrpc, stdout>>
    /\ UNCHANGED notDispatcher

\* A send on a buffered channel: it panics on a closed channel and blocks on a
\* full one.
ChanSend(buf, cap, closed, v) ==
    IF closed THEN [ok |-> FALSE, panic |-> TRUE, buf |-> buf]
    ELSE IF Len(buf) < cap THEN [ok |-> TRUE, panic |-> FALSE, buf |-> Append(buf, v)]
    ELSE [ok |-> FALSE, panic |-> FALSE, buf |-> buf]

\* reports <- report_json, the record of the unparseable line at hand (nil when
\* encodeResult failed twice)
StdinSendReport ==
    LET r == ChanSend(reports, ReportsCap, reportsClosed, EncodeResult(nread, diag[nread]).encoded)
    IN  /\ Alive
        /\ rpc = "send_report"
        /\ r.ok \/ r.panic
        /\ reports' = r.buf
        /\ IF r.panic
             THEN crash' = "send on closed channel (reports)" /\ UNCHANGED rpc
             ELSE rpc' = StdinNext(rEof) /\ UNCHANGED crash
        /\ UNCHANGED <<nread, kind, rEof, urlsClosed, sigint, sig_int_chan, hpc, mpc, murl, mn,
                       limit, busy_count, reportsClosed, tpc, tn, diag, wrpc, stdout>>
        /\ UNCHANGED notDispatcher

\* urls <- line_url meets main's receive in `for url := range urls`
\* (urls is unbuffered)
UrlsHandoff ==
    /\ Alive
    /\ rpc = "send_url"
    /\ mpc = "range"
    /\ urlsClosed = "no"
    /\ murl' = nread
    /\ mpc' = "limit"
    /\ rpc' = StdinNext(rEof)
    /\ UNCHANGED <<nread, kind, rEof, urlsClosed, sigint, sig_int_chan, hpc, mn, limit,
                   busy_count, reports, reportsClosed, tpc, tn, diag, wrpc, stdout, crash>>
    /\ UNCHANGED notDispatcher

\* urls <- line_url on the channel handleSigInt has closed: panic
StdinSendUrlClosed ==
    /\ Alive
    /\ rpc = "send_url"
    /\ urlsClosed # "no"
    /\ crash' = "send on closed channel (urls)"
    /\ UNCHANGED <<nread, kind, rpc, rEof, urlsClosed, sigint, sig_int_chan, hpc, mpc, murl,
                   mn, limit, busy_count, reports, reportsClosed, tpc, tn, diag, wrpc, stdout>>
    /\ UNCHANGED notDispatcher

\* close(urls) by goroutine who: a second close panics
CloseUrls(who) ==
    IF urlsClosed = "no"
      THEN urlsClosed' = who /\ UNCHANGED crash
      ELSE crash' = "close of closed channel (urls)" /\ UNCHANGED urlsClosed

\* stdinReader returns: defer close(urls)
StdinClose ==
    /\ Alive
    /\ rpc = "close"
    /\ rpc' = "done"
    /\ CloseUrls("stdinReader")
    /\ UNCHANGED <<nread, kind, rEof, sigint, sig_int_chan, hpc, mpc, murl, mn, limit,
                   busy_count, reports, reportsClosed, tpc, tn, diag, wrpc, stdout>>
    /\ UNCHANGED notDispatcher

\* ---- handleSigInt ----

\* A SIGINT arrives: signal.Notify puts it into sig_int_chan
SigInt ==
    /\ Alive
    /\ ~sigint
    /\ sigint' = TRUE
    /\ sig_int_chan' = 1
    /\ UNCHANGED <<nread, kind, rpc, rEof, urlsClosed, hpc, mpc, murl, mn, limit, busy_count,
                   reports, reportsClosed, tpc, tn, diag, wrpc, stdout, crash>>
    /\ UNCHANGED notDispatcher

\* <-ch; the message; and the deferred close(urls)
HandleSigInt ==
    /\ Alive
    /\ hpc = "wait"
    /\ sig_int_chan > 0
    /\ sig_int_chan' = sig_int_chan - 1
    /\ hpc' = "done"
    /\ CloseUrls("handleSigInt")
    /\ UNCHANGED <<nread, kind, rpc, rEof, sigint, mpc, murl, mn, limit, busy_count,
                   reports, reportsClosed, tpc, tn, diag, wrpc, stdout>>
    /\ UNCHANGED notDispatcher

\* ---- main ----

\* busy_count <- 0
MainStart ==
    /\ Alive
    /\ mpc = "start"
    /\ busy_count' = <<0>>
    /\ mpc' = "range"
    /\ UNCHANGED <<nread, kind, rpc, rEof, urlsClosed, sigint, sig_int_chan, hpc, murl, mn,
                   limit, reports, reportsClosed, tpc, tn, diag, wrpc, stdout, crash>>
    /\ UNCHANGED notDispatcher

\* limit <- true; url_count++
MainLimit ==
    /\ Alive
    /\ mpc = "limit"
    /\ limit < LimitCap
    /\ limit' = limit + 1
    /\ mpc' = "inc"
    /\ UNCHANGED <<nread, kind, rpc, rEof, urlsClosed, sigint, sig_int_chan, hpc, murl, mn,
                   busy_count, reports, reportsClosed, tpc, tn, diag, wrpc, stdout, crash>>
    /\ UNCHANGED notDispatcher

\* The receive of busy_count <- (<-busy_count + 1)
MainIncRecv ==
    /\ Alive
    /\ mpc = "inc"
    /\ busy_count # <<>>
    /\ mn' = Head(busy_count)
    /\ busy_count' = Tail(busy_count)
    /\ mpc' = "inc_send"
    /\ UNCHANGED <<nread, kind, rpc, rEof, urlsClosed, sigint, sig_int_chan, hpc, murl,
                   limit, reports, reportsClosed, tpc, tn, diag, wrpc, stdout, crash>>
    /\ UNCHANGED notDispatcher

\* The send of busy_count <- (<-busy_count + 1); go processUrl(url)
MainSpawn ==
    /\ Alive
    /\ mpc = "inc_send"
    /\ Len(busy_count) < 1
    /\ busy_count' = Append(busy_count, (mn + 1) % UintMod)
    /\ tpc' = [tpc EXCEPT ![murl] = "fetch"]
    /\ murl' = 0
    /\ mpc' = "range"
    /\ UNCHANGED <<nread, kind, rpc, rEof, urlsClosed, sigint, sig_int_chan, hpc, mn,
                   limit, reports, reportsClosed, tn, diag, wrpc, stdout, crash>>
    /\ UNCHANGED notDispatcher

\* `for url := range urls` ends: urls is closed
MainRangeEnd ==
    /\ Alive
    /\ mpc = "range"
    /\ urlsClosed # "no"
    /\ mpc' = "poll"
    /\ UNCHANGED <<nread, kind, rpc, rEof, urlsClosed, sigint, sig_int_chan, hpc, murl, mn,
                   limit, busy_count, reports, reportsClosed, tpc, tn, diag, wrpc, stdout, crash>>
    /\ UNCHANGED notDispatcher

\* busyCountGet: n := <-busy_count
MainPollRecv ==
    /\ Alive
    /\ mpc = "poll"
    /\ busy_count # <<>>
    /\ mn' = Head(busy_count)
    /\ busy_count' = Tail(busy_count)
    /\ mpc' = "poll_send"
    /\ UNCHANGED <<nread, kind, rpc, rEof, urlsClosed, sigint, sig_int_chan, hpc, murl,
                   limit, reports, reportsClosed, tpc, tn, diag, wrpc, stdout, crash>>
    /\ UNCHANGED notDispatcher

\* The slip of a drain that does not look at the counter.
DrainedAlways(n) == TRUE

\* The slip of a drain that never ends.
DrainedNever(n) == FALSE

\* The poll loop's condition n > 0 is false
Drained(n) == ~(n > 0)

\* busyCountGet: busy_count <- n; return n; then the loop's test: sleep and
\* poll again, or go on to close(reports)
MainPollSend ==
    /\ Alive
    /\ mpc = "poll_send"
    /\ Len(busy_count) < 1
    /\ busy_count' = Append(busy_count, mn)
    /\ mpc' = IF Drained(mn) THEN "close" ELSE "poll"
    /\ UNCHANGED <<nread, kind, rpc, rEof, urlsClosed, sigint, sig_int_chan, hpc, murl, mn,
                   limit, reports, reportsClosed, tpc, tn, diag, wrpc, stdout, crash>>
    /\ UNCHANGED notDispatcher

\* close(reports)
MainClose ==
    /\ Alive
    /\ mpc = "close"
    /\ reportsClosed' = TRUE
    /\ mpc' = "wait_done"
    /\ UNCHANGED <<nread, kind, rpc, rEof, urlsClosed, sigint, sig_int_chan, hpc, murl, mn,
                   limit, busy_count, reports, tpc, tn, diag, wrpc, stdout, crash>>
    /\ UNCHANGED notDispatcher

\* <-done_writing meets reportWriter's done <- true (done_writing is unbuffered);
\* main returns
DoneHandoff ==
    /\ Alive
    /\ mpc = "wait_done"
    /\ wrpc = "done"
    /\ mpc' = "returned"
    /\ wrpc' = "exit"
    /\ UNCHANGED <<nread, kind, rpc, rEof, urlsClosed, sigint, sig_int_chan, hpc, murl, mn,
                   limit, busy_count, reports, reportsClosed, tpc, tn, diag, stdout, crash>>
    /\ UNCHANGED notDispatcher

\* ---- processUrl ----

\* The slip of returning early, before the decrement, when there is no record.
AfterEncodeReturnEarly(encoded) == IF encoded # Nil THEN "send" ELSE "done"

\* if report_json != nil { reports <- report_json }
AfterEncode(encoded) == IF encoded # Nil THEN "send" ELSE "dec"

\* result := worker.Fetch(url) returns; report_json, _ := encodeResult(url.String(), result)
TaskFetched(u, fails) ==
    /\ Alive
    /\ tpc[u] = "fetch"
    /\ diag' = [diag EXCEPT ![u] = EncodeResult(u, fails).diags]
    /\ tpc' = [tpc EXCEPT ![u] = AfterEncode(EncodeResult(u, fails).encoded)]
    /\ UNCHANGED <<nread, kind, rpc, rEof, urlsClosed, sigint, sig_int_chan, hpc, mpc, murl, mn,
                   limit, busy_count, reports, reportsClosed, tn, wrpc, stdout, crash>>
    /\ UNCHANGED notDispatcher

\* worker.Fetch runs into its total timeout: Client.Fetch calls client.Abort,
\* which panics
TaskFetchAbort(u) ==
    /\ Alive
    /\ tpc[u] = "fetch"
    /\ crash' = "Not implemented"
    /\ UNCHANGED <<nread, kind, rpc, rEof, urlsClosed, sigint, sig_int_chan, hpc, mpc, murl, mn,
                   limit, busy_count, reports, reportsClosed, tpc, tn, diag, wrpc, stdout>>
    /\ UNCHANGED notDispatcher

\* reports <- report_json
TaskSend(u) ==
    LET r == ChanSend(reports, ReportsCap, reportsClosed, EncodeResult(u, diag[u]).encoded)
    IN  /\ Alive
        /\ tpc[u] = "send"
        /\ r.ok \/ r.panic
        /\ reports' = r.buf
        /\ IF r.panic
             THEN crash' = "send on closed channel (reports)" /\ UNCHANGED tpc
             ELSE tpc' = [tpc EXCEPT ![u] = "dec"] /\ UNCHANGED crash
        /\ UNCHANGED <<nread, kind, rpc, rEof, urlsClosed, sigint, sig_int_chan, hpc, mpc, murl,
                       mn, limit, busy_count, reportsClosed, tn, diag, wrpc, stdout>>
        /\ UNCHANGED notDispatcher

\* The receive of busy_count <- (<-busy_count - 1)
TaskDecRecv(u) ==
    /\ Alive
    /\ tpc[u] = "dec"
    /\ busy_count # <<>>
    /\ tn' = [tn EXCEPT ![u] = Head(busy_count)]
    /\ busy_count' = Tail(busy_count)
    /\ tpc' = [tpc EXCEPT ![u] = "dec_send"]
    /\ UNCHANGED <<nread, kind, rpc, rEof, urlsClosed, sigint, sig_int_chan, hpc, mpc, murl, mn,
                   limit, reports, reportsClosed, diag, wrpc, stdout, crash>>
    /\ UNCHANGED notDispatcher

\* The send of busy_count <- (<-busy_count - 1), on a uint
TaskDecSend(u) ==
    /\ Alive
    /\ tpc[u] = "dec_send"
    /\ Len(busy_count) < 1
    /\ busy_count' = Append(busy_count, (tn[u] - 1) % UintMod)
    /\ tn' = [tn EXCEPT ![u] = 0]
    /\ tpc' = [tpc EXCEPT ![u] = "release"]
    /\ UNCHANGED <<nread, kind, rpc, rEof, urlsClosed, sigint, sig_int_chan, hpc, mpc, murl, mn,
                   limit, reports, reportsClosed, diag, wrpc, stdout, crash>>
    /\ UNCHANGED notDispatcher

\* <-limit
TaskRelease(u) ==
    /\ Alive
    /\ tpc[u] = "release"
    /\ limit > 0
    /\ limit' = limit - 1
    /\ tpc' = [tpc EXCEPT ![u] = "done"]
    /\ UNCHANGED <<nread, kind, rpc, rEof, urlsClosed, sigint, sig_int_chan, hpc, mpc, murl, mn,
                   busy_count, reports, reportsClosed, tn, diag, wrpc, stdout, crash>>
    /\ UNCHANGED notDispatcher

\* ---- reportWriter ----

\* for r := range reports: if r != nil { os.Stdout.Write(r); os.Stdout.Write("\n") }
WriterWrite ==
    /\ Alive
    /\ wrpc = "range"
    /\ reports # <<>>
    /\ reports' = Tail(reports)
    /\ stdout' = IF Head(reports) # Nil
                   THEN [stdout EXCEPT ![Head(reports)] = @ + 1]
                   ELSE stdout
    /\ UNCHANGED <<nread, kind, rpc, rEof, urlsClosed, sigint, sig_int_chan, hpc, mpc, murl, mn,
                   limit, busy_count, reportsClosed, tpc, tn, diag, wrpc, crash>>
    /\ UNCHANGED notDispatcher

\* The range ends: reports is closed and empty; next is done <- true
WriterRangeEnd ==
    /\ Alive
    /\ wrpc = "range"
    /\ reports = <<>>
    /\ reportsClosed
    /\ wrpc' = "done"
    /\ UNCHANGED <<nread, kind, rpc, rEof, urlsClosed, sigint, sig_int_chan, hpc, mpc, murl, mn,
                   limit, busy_count, reports, reportsClosed, tpc, tn, diag, stdout, crash>>
    /\ UNCHANGED notDispatcher

\* The steps of a run in which standard input ends, no SIGINT arrives and every
\* worker.Fetch returns.
DispNextEof ==
    \/ \E k \in {"blank", "bad", "url"}, eof \in BOOLEAN, fails \in 0..2 : StdinReadLine(k, eof, fails)
    \/ StdinReadEof
    \/ StdinSendReport
    \/ UrlsHandoff
    \/ StdinClose
    \/ MainStart
    \/ MainLimit
    \/ MainIncRecv
    \/ MainSpawn
    \/ MainRangeEnd
    \/ MainPollRecv
    \/ MainPollSend
    \/ MainClose
    \/ DoneHandoff
    \/ \E u \in Lines, fails \in 0..2 : TaskFetched(u, fails)
    \/ \E u \in Lines : TaskSend(u)
    \/ \E u \in Lines : TaskDecRecv(u)
    \/ \E u \in Lines : TaskDecSend(u)
    \/ \E u \in Lines : TaskRelease(u)
    \/ WriterWrite
    \/ WriterRangeEnd

\* Every step of the dispatcher.
DispNext ==
    \/ DispNextEof
    \/ StdinReadError
    \/ StdinSendUrlClosed
    \/ SigInt
    \/ HandleSigInt
    \/ \E u \in Lines : TaskFetchAbort(u)

-----------------------------------------------------------------------------
(***************************************************************************)
(* Worker and Client: Worker.Fetch, Worker.AskRobots, Worker.Download,      *)
(* Client.Fetch.  One call of Worker.Fetch and the calls nested in it; the  *)
(* server, the robots.txt parser and the timer are the environment.         *)
(***************************************************************************)

\* The hosts of the URLs; the code uses the host only to name the robots.txt
\* to ask.
Hosts == {"h"}
RobotsPath == "/robots.txt"
Paths == {RobotsPath, "/x"}
\* The URLs with a scheme and a host.
URLs == [scheme : {"http"}, host : Hosts, path : Paths]
\* A URL without scheme and host, such as a relative Location.
BadUrl == [scheme |-> "", host |-> "", path |-> "/x"]
\* The nil *url.URL that url.Parse returns with an error.
NoUrl == [scheme |-> "nil", host |-> "nil", path |-> "nil"]
\* The nil *FetchResult.
NoResult ==
    [url |-> NoUrl, success |-> FALSE, status |-> <<"nil">>, status_code |-> 0,
     fetch_time |-> 0, total_time |-> 0]
\* The status codes the server answers with.
Codes == {200, 302}

\* ShouldRedirect(statusCode)
ShouldRedirect(statusCode) == statusCode \in {301, 302, 303, 307}

\* The slip of a duration divided by a second instead of a millisecond.
MsWrongUnit(d) == d \div (TicksPerMs * 2)

\* A duration in milliseconds, truncated: d / time.Millisecond, d / 1e6
Ms(d) == d \div TicksPerMs

\* result.FetchTime = uint((time.Now().Sub(started)) / time.Millisecond)
FetchTime(started, ended) == Ms(ended - started) % UintMod

\* The slip of taking the total time in the wrong unit.
TotalTimeWrongUnit(started, ended) == MsWrongUnit(ended - started) % UintMod

\* result.TotalTime = uint((ended.Sub(started)) / 1e6)
TotalTime(started, ended) == Ms(ended - started) % UintMod

\* fmt.Sprintf("%s://%s/robots.txt", url.Scheme, url.Host), parsed
RobotsUrl(u) == [scheme |-> u.scheme, host |-> u.host, path |-> RobotsPath]

\* The slip of a loop that runs one hop too far.
MoreHopsOneTooMany(redirect) == redirect <= FollowRedirects + 1

\* redirect <= w.FollowRedirects, the condition of the loop of Worker.Fetch
MoreHops(redirect) == redirect <= FollowRedirects

\* The slip of never consulting robots.txt.
NeedsRobotsNever(u) == FALSE

\* The slip of consulting robots.txt for /robots.txt too.
NeedsRobotsAlways(u) == ~SkipRobots

\* The else branch of `if w.SkipRobots || url.Path == "/robots.txt"`
NeedsRobots(u) == ~(SkipRobots \/ u.path = RobotsPath)

\* A call of Worker.Fetch(u) as it starts: original_url, started, redirect;
\* ndl, allowed, downloaded are history: the downloads this call has made,
\* whether AskRobots allowed the URL at this hop, and whether it was
\* downloaded at this hop.
NewCall(u) ==
    [url |-> u, original_url |-> u, redirect |-> 0, pc |-> "loop", result |-> NoResult,
     started |-> now, cstarted |-> 0, ndl |-> 0, allowed |-> FALSE, downloaded |-> FALSE]

\* newWorker()
WorkerInit ==
    /\ FollowRedirects = 1
    /\ SkipRobots = FALSE
    /\ wst = "flags"
    /\ stack = <<>>
    /\ ret = NoResult
    /\ now = 0
    /\ finished = NewCall(NoUrl)
    /\ wcrash = NoPanic

\* The innermost active call.
Top == stack[Len(stack)]
\* The stack with the innermost call replaced by f.
SetTop(f) == [stack EXCEPT ![Len(stack)] = f]
WorkerRuns == wst = "running" /\ wcrash = NoPanic /\ stack # <<>>

\* flag.UintVar(&worker.FollowRedirects, "redirects", ...),
\* flag.BoolVar(&worker.SkipRobots, "skip-robots", ...) and flag.Parse()
WorkerFlags(fr, sr) ==
    /\ wst = "flags"
    /\ FollowRedirects' = fr
    /\ SkipRobots' = sr
    /\ wst' = "ready"
    /\ UNCHANGED <<stack, ret, now, finished, wcrash>>
    /\ UNCHANGED notWorker

\* result := worker.Fetch(url): original_url := *url; started := time.Now()
WorkerFetch(u) ==
    /\ wst = "ready"
    /\ stack' = <<NewCall(u)>>
    /\ wst' = "running"
    /\ UNCHANGED <<FollowRedirects, SkipRobots, ret, now, finished, wcrash>>
    /\ UNCHANGED notWorker

\* Time passes.  The clock is read when a call starts, when a download starts
\* and ends, and when a call ends: it is enough to let time pass at the head
\* of the loop, after the return of the nested call, during the download and
\* before the end of the call.
Tick ==
    /\ WorkerRuns
    /\ Top.pc \in {"loop", "robots", "fetching", "end"}
    /\ now < MaxTime
    /\ now' = now + 1
    /\ UNCHANGED <<FollowRedirects, SkipRobots, wst, stack, ret, finished, wcrash>>
    /\ UNCHANGED notWorker

\* The head of the loop of Worker.Fetch: the loop condition, the check of
\* scheme and host, and the decision whether to ask robots.txt.
FetchLoop ==
    /\ WorkerRuns
    /\ Top.pc = "loop"
    /\ stack' = SetTop(
          IF ~MoreHops(Top.redirect) THEN [Top EXCEPT !.pc = "end"]
          ELSE IF Top.url.scheme = "" \/ Top.url.host = ""
            THEN [Top EXCEPT !.result = ErrorResult(Top.url, "Incorrect URL: "), !.pc = "end"]
          ELSE IF NeedsRobots(Top.url) THEN [Top EXCEPT !.pc = "ask"]
          ELSE [Top EXCEPT !.pc = "download"])
    /\ UNCHANGED <<FollowRedirects, SkipRobots, wst, ret, now, finished, wcrash>>
    /\ UNCHANGED notWorker

\* AskRobots: url.Parse(robots_url_str) fails: return false, ErrorResult
AskRobotsBadUrl ==
    /\ WorkerRuns
    /\ Top.pc = "ask"
    /\ stack' = SetTop([Top EXCEPT !.result = ErrorResult(Top.url, "parse error"), !.pc = "end"])
    /\ UNCHANGED <<FollowRedirects, SkipRobots, wst, ret, now, finished, wcrash>>
    /\ UNCHANGED notWorker

\* AskRobots: fetch_result := w.Fetch(robots_url), the nested call
AskRobotsFetch ==
    /\ WorkerRuns
    /\ Top.pc = "ask"
    /\ Len(stack) < MaxDepth
    /\ stack' = Append(SetTop([Top EXCEPT !.pc = "robots"]), NewCall(RobotsUrl(Top.url)))
    /\ UNCHANGED <<FollowRedirects, SkipRobots, wst, ret, now, finished, wcrash>>
    /\ UNCHANGED notWorker

\* The result AskRobots hands to Worker.Fetch, with allow, given the result of
\* the nested fetch and what robotstxt makes of it.
AskRobotsResult(u, fetch_result, robots) ==
    IF ~fetch_result.success
      THEN [allow |-> FALSE,
            result |-> [fetch_result EXCEPT !.status = <<"Robots download error: ">> \o @]]
    ELSE IF robots = "parse error"
      THEN [allow |-> FALSE,
            result |-> [fetch_result EXCEPT !.status = <<"Robots parse error: ", "parse error">>]]
    ELSE IF robots = "test error"
      THEN [allow |-> FALSE, result |-> ErrorResult(u, "Robots test error: ")]
    ELSE IF robots = "disallow"
      THEN [allow |-> FALSE, result |-> ErrorResult(u, "Robots disallow")]
    ELSE [allow |-> TRUE, result |-> NoResult]

\* The nested fetch has returned: the rest of AskRobots, and
\* `allow, result = w.AskRobots(url); if !allow { break }`
AskRobotsReturn(robots) ==
    LET a == AskRobotsResult(Top.url, ret, robots)
    IN  /\ WorkerRuns
        /\ Top.pc = "robots"
        /\ ret # NoResult
        /\ ~ret.success => robots = "allow"
        /\ stack' = SetTop([Top EXCEPT !.result = a.result,
                                       !.allowed = a.allow,
                                       !.pc = IF a.allow THEN "download" ELSE "end"])
        /\ ret' = NoResult
        /\ UNCHANGED <<FollowRedirects, SkipRobots, wst, now, finished, wcrash>>
        /\ UNCHANGED notWorker

\* result = w.Download(url): Client.Fetch takes started := time.Now() and
\* starts the round trip
DownloadStart ==
    /\ WorkerRuns
    /\ Top.pc = "download"
    /\ stack' = SetTop([Top EXCEPT !.cstarted = now, !.ndl = @ + 1, !.downloaded = TRUE,
                                   !.pc = "fetching"])
    /\ UNCHANGED <<FollowRedirects, SkipRobots, wst, ret, now, finished, wcrash>>
    /\ UNCHANGED notWorker

\* What Client.fetch makes of the round trip: an error result when
\* http_client.Do or the copy of the body fails, else the response.
ClientResult(u, code) ==
    IF code = 0 THEN ErrorResult(u, "net error")
    ELSE [url |-> u, success |-> TRUE, status |-> <<"HTTP status">>, status_code |-> code,
          fetch_time |-> 0, total_time |-> 0]

\* Client.Fetch: `case result = <-rch`, then result.FetchTime
ClientFetchDone(code) ==
    /\ WorkerRuns
    /\ Top.pc = "fetching"
    /\ stack' = SetTop([Top EXCEPT
          !.result = [ClientResult(Top.url, code) EXCEPT
                         !.fetch_time = FetchTime(Top.cstarted, now)],
          !.pc = "after"])
    /\ UNCHANGED <<FollowRedirects, SkipRobots, wst, ret, now, finished, wcrash>>
    /\ UNCHANGED notWorker

\* Client.Fetch: `case <-time.After(options.TotalTimeout)`: client.Abort(req)
\* panics
ClientFetchTimeout ==
    /\ WorkerRuns
    /\ Top.pc = "fetching"
    /\ stack' = SetTop([Top EXCEPT !.pc = "abort"])
    /\ wcrash' = "Not implemented"
    /\ UNCHANGED <<FollowRedirects, SkipRobots, wst, ret, now, finished>>
    /\ UNCHANGED notWorker

\* After Download: on a redirect status the Location is parsed and the loop
\* continues with it (redirect++), or the parse fails; otherwise break.
AfterDownload(location) ==
    /\ WorkerRuns
    /\ Top.pc = "after"
    /\ ~ShouldRedirect(Top.result.status_code) => location = NoUrl
    /\ stack' = SetTop(
          IF ~ShouldRedirect(Top.result.status_code) THEN [Top EXCEPT !.pc = "end"]
          ELSE IF location = NoUrl
            THEN [Top EXCEPT !.url = NoUrl,
                             !.result = ErrorResult(Top.original_url, "parse error"),
                             !.pc = "end"]
          ELSE [Top EXCEPT !.url = location, !.redirect = (@ + 1) % UintMod,
                           !.allowed = FALSE, !.downloaded = FALSE, !.pc = "loop"])
    /\ UNCHANGED <<FollowRedirects, SkipRobots, wst, ret, now, finished, wcrash>>
    /\ UNCHANGED notWorker

\* ended := time.Now(); result.TotalTime = ...; return result, to AskRobots of
\* the calling Worker.Fetch or to the caller of the outermost one
FetchEnd ==
    LET f == [Top EXCEPT !.result = [@ EXCEPT !.total_time = TotalTime(Top.started, now)],
                         !.pc = "returned"]
    IN  /\ WorkerRuns
        /\ Top.pc = "end"
        /\ stack' = SubSeq(stack, 1, Len(stack) - 1)
        /\ IF Len(stack) = 1
             THEN finished' = f /\ wst' = "returned" /\ UNCHANGED ret
             ELSE ret' = f.result /\ UNCHANGED <<finished, wst>>
        /\ UNCHANGED <<FollowRedirects, SkipRobots, now, wcrash>>
        /\ UNCHANGED notWorker

\* Every step of a call of Worker.Fetch.
WorkerNext ==
    \/ \E fr \in 0..MaxRedirects, sr \in BOOLEAN : WorkerFlags(fr, sr)
    \/ \E u \in URLs \cup {BadUrl} : WorkerFetch(u)
    \/ Tick
    \/ FetchLoop
    \/ AskRobotsBadUrl
    \/ AskRobotsFetch
    \/ \E robots \in {"parse error", "test error", "disallow", "allow"} : AskRobotsReturn(robots)
    \/ DownloadStart
    \/ \E code \in Codes \cup {0} : ClientFetchDone(code)
    \/ ClientFetchTimeout
    \/ \E location \in URLs \cup {BadUrl, NoUrl} : AfterDownload(location)
    \/ FetchEnd

-----------------------------------------------------------------------------
(***************************************************************************)
(* heroshi.Transport: RoundTripOptions and the body reader of its response. *)
(* The package's source is not part of the repository snapshot; it is       *)
(* modelled after sections 4.3 and 4.4 of the specification and after what  *)
(* transport_test.go requires of it.  The peer and the clock are the        *)
(* environment.                                                             *)
(***************************************************************************)

NoError == [phase |-> "", timeout |-> FALSE]

\* transport := &Transport{}
TransportInit ==
    /\ options = [ConnectTimeout |-> 0, WriteTimeout |-> 0, ReadTimeout |-> 0, ReadLimit |-> 0]
    /\ phase = "idle"
    /\ tnow = 0
    /\ pstart = 0
    /\ expired = ""
    /\ rterr = NoError
    /\ response = FALSE
    /\ sent = [header |-> 1, body |-> 0]
    /\ got = 0
    /\ bodyRead = 0
    /\ bodyEnd = "open"

\* The timeout that governs a phase; 0 means none.
TimeoutOf(p) ==
    CASE p = "connect"     -> options.ConnectTimeout
      [] p = "write"       -> options.WriteTimeout
      [] p = "read_header" -> options.ReadTimeout
      [] p = "body"        -> options.ReadTimeout
      [] OTHER             -> 0

InRoundTrip == phase \in {"connect", "write", "read_header"}
Busy == InRoundTrip \/ phase = "body"

\* The deadline of the phase at hand has passed.
DeadlinePassed == Busy /\ TimeoutOf(phase) > 0 /\ tnow - pstart >= TimeoutOf(phase)

\* The slip of an error that hides the timeout of the socket.
PhaseErrorOpaque(p, timedOut) == [phase |-> p, timeout |-> FALSE]

\* The error a phase ends with; Timeout() is true when its deadline passed.
PhaseError(p, timedOut) == [phase |-> p, timeout |-> timedOut]

\* The slip of a limit that counts body bytes only.
LimitReachedBodyOnly == options.ReadLimit > 0 /\ bodyRead >= options.ReadLimit

\* ReadLimit bytes have been read from the connection.
LimitReached == options.ReadLimit > 0 /\ got >= options.ReadLimit

\* The bytes response.Header.Write gives for a response whose status line and
\* headers took h bytes: the status line and the empty line are not written.
HeaderWritten(h) == h - 1

\* transport.RoundTripOptions(request, options) against a server that will
\* send s: the connection is dialled
RoundTripOptions(o, s) ==
    /\ phase = "idle"
    /\ options' = o
    /\ sent' = s
    /\ phase' = "connect"
    /\ pstart' = tnow
    /\ UNCHANGED <<tnow, expired, rterr, response, got, bodyRead, bodyEnd>>
    /\ UNCHANGED notTransport

\* Time passes; a phase with a timeout does not wait beyond its deadline.
TransportTick ==
    /\ Busy
    /\ ~DeadlinePassed
    /\ tnow < MaxTime
    /\ tnow' = tnow + 1
    /\ UNCHANGED <<options, phase, pstart, expired, rterr, response, sent, got, bodyRead, bodyEnd>>
    /\ UNCHANGED notTransport

\* The deadline of the phase at hand passes: RoundTripOptions returns the
\* timeout error and closes the connection; in the body, Read returns it.
PhaseTimeout ==
    /\ DeadlinePassed
    /\ expired' = phase
    /\ IF InRoundTrip
         THEN /\ rterr' = PhaseError(phase, TRUE)
              /\ phase' = "failed"
              /\ UNCHANGED bodyEnd
         ELSE /\ bodyEnd' = "timeout"
              /\ phase' = "closed"
              /\ UNCHANGED rterr
    /\ UNCHANGED <<options, tnow, pstart, response, sent, got, bodyRead>>
    /\ UNCHANGED notTransport

\* The phase at hand fails for another reason (refused, reset, malformed).
PhaseFails ==
    /\ InRoundTrip
    /\ ~DeadlinePassed
    /\ rterr' = PhaseError(phase, FALSE)
    /\ phase' = "failed"
    /\ UNCHANGED <<options, tnow, pstart, expired, response, sent, got, bodyRead, bodyEnd>>
    /\ UNCHANGED notTransport

\* The connection is established in time: the request is written next.
Connected ==
    /\ phase = "connect"
    /\ ~DeadlinePassed
    /\ phase' = "write"
    /\ pstart' = tnow
    /\ UNCHANGED <<options, tnow, expired, rterr, response, sent, got, bodyRead, bodyEnd>>
    /\ UNCHANGED notTransport

\* The request is written in time: the response is read next.
RequestWritten ==
    /\ phase = "write"
    /\ ~DeadlinePassed
    /\ phase' = "read_header"
    /\ pstart' = tnow
    /\ UNCHANGED <<options, tnow, expired, rterr, response, sent, got, bodyRead, bodyEnd>>
    /\ UNCHANGED notTransport

\* A byte of the status line and headers is read; with the last one
\* RoundTripOptions returns the response.  At the read limit the headers end
\* early, which is a malformed response.
ReadHeader ==
    /\ phase = "read_header"
    /\ ~DeadlinePassed
    /\ IF LimitReached
         THEN /\ rterr' = PhaseError(phase, FALSE)
              /\ phase' = "failed"
              /\ UNCHANGED <<got, response>>
         ELSE /\ got' = got + 1
              /\ response' = (got' = sent.header)
              /\ phase' = IF got' = sent.header THEN "body" ELSE phase
              /\ UNCHANGED rterr
    /\ UNCHANGED <<options, tnow, pstart, expired, sent, bodyRead, bodyEnd>>
    /\ UNCHANGED notTransport

\* response.Body.Read: a byte of the body, or the end of the body: all of it
\* was read, or the read limit cuts it, without an error.
ReadBody ==
    /\ phase = "body"
    /\ ~DeadlinePassed
    /\ IF LimitReached \/ bodyRead = sent.body
         THEN /\ bodyEnd' = "eof"
              /\ phase' = "closed"
              /\ UNCHANGED <<got, bodyRead>>
         ELSE /\ got' = got + 1
              /\ bodyRead' = bodyRead + 1
              /\ UNCHANGED <<bodyEnd, phase>>
    /\ UNCHANGED <<options, tnow, pstart, expired, rterr, response, sent>>
    /\ UNCHANGED notTransport

\* Every step of a round trip.
TransportNext ==
    \/ \E o \in [ConnectTimeout : 0..MaxTimeout, WriteTimeout : 0..MaxTimeout,
                 ReadTimeout : 0..MaxTimeout, ReadLimit : 0..MaxReadLimit],
          s \in [header : 1..MaxHeader, body : 0..MaxBody] : RoundTripOptions(o, s)
    \/ TransportTick
    \/ PhaseTimeout
    \/ PhaseFails
    \/ Connected
    \/ RequestWritten
    \/ ReadHeader
    \/ ReadBody

-----------------------------------------------------------------------------
(***************************************************************************)
(* heroshi.Transport: the connections to one host and the idle pool, as     *)
(* TestClose drives them (GetConnRequest, WriteRequest, ReadResponse, Close, *)
(* RoundTripOptions).  Modelled after sections 3 and 4.4 of the             *)
(* specification; several callers use the Transport at the same time.       *)
(***************************************************************************)

Conns == 1..MaxConns
\* maxIdlePerHost
MaxIdlePerHost == 1
\* The error ReadResponse returns.
ReadError == -1

\* transport := &Transport{}
PoolInit ==
    /\ cstate = [c \in Conns |-> "fresh"]
    /\ cop = [c \in Conns |-> "none"]
    /\ cresult = [c \in Conns |-> 0]
    /\ idle = <<>>
    /\ closedRead = [c \in Conns |-> 0]

\* Number of connections dialled so far; they are numbered as they are dialled.
Dialled == Cardinality({c \in Conns : cstate[c] # "fresh"})

\* The connection a round trip takes: the oldest idle one, else a new one.
TakeConn == IF idle # <<>> THEN Head(idle) ELSE Dialled + 1

\* The slip of pooling a connection after its read, closed or not.
ConnAfterReadAlwaysPooled(st, keep, room) == IF keep /\ room THEN "idle" ELSE "closed"

\* The state of a connection once ReadResponse has returned and the body is
\* drained: it goes back to the pool only after a complete, successful response
\* with keep-alive, and when the pool has room; after any error it is closed.
ConnAfterRead(st, keep, room) == IF st = "busy" /\ keep /\ room THEN "idle" ELSE "closed"

\* transport.GetConnRequest(request, nil), also the first step of
\* RoundTripOptions: pop an idle connection or dial a new one
GetConnRequest ==
    /\ TakeConn \in Conns
    /\ cstate' = [cstate EXCEPT ![TakeConn] = "busy"]
    /\ cop' = [cop EXCEPT ![TakeConn] = "write"]
    /\ cresult' = [cresult EXCEPT ![TakeConn] = 0]
    /\ idle' = IF idle # <<>> THEN Tail(idle) ELSE idle
    /\ UNCHANGED closedRead
    /\ UNCHANGED notPool

\* conn.WriteRequest(request, nil) returns; ReadResponse is called next
WriteRequest(c) ==
    /\ cstate[c] = "busy"
    /\ cop[c] = "write"
    /\ cop' = [cop EXCEPT ![c] = "read"]
    /\ UNCHANGED <<cstate, cresult, idle, closedRead>>
    /\ UNCHANGED notPool

\* conn.ReadResponse(nil) returns: the response of the server (status 200,
\* keep-alive or not) when the connection is open, an error when it was closed
\* under the read
ReadResponse(c, keep) ==
    LET st == ConnAfterRead(cstate[c], keep, Len(idle) < MaxIdlePerHost)
    IN  /\ cop[c] = "read"
        /\ cop' = [cop EXCEPT ![c] = "none"]
        /\ cresult' = [cresult EXCEPT ![c] = IF cstate[c] = "busy" THEN 200 ELSE ReadError]
        /\ cstate' = [cstate EXCEPT ![c] = st]
        /\ idle' = IF st = "idle" THEN Append(idle, c) ELSE idle
        /\ UNCHANGED closedRead
        /\ UNCHANGED notPool

\* The peer resets the connection under a write or a read: the call returns an
\* error and the connection is closed
ConnFails(c) ==
    /\ cstate[c] = "busy"
    /\ cop[c] # "none"
    /\ cop' = [cop EXCEPT ![c] = "none"]
    /\ cresult' = [cresult EXCEPT ![c] = ReadError]
    /\ cstate' = [cstate EXCEPT ![c] = "closed"]
    /\ UNCHANGED <<idle, closedRead>>
    /\ UNCHANGED notPool

\* conn.Close() by the caller that holds the connection, a call pending on it
\* or not: the socket is torn down
ConnClose(c) ==
    /\ cstate[c] = "busy"
    /\ cstate' = [cstate EXCEPT ![c] = "closed"]
    /\ closedRead' = IF cop[c] = "read" THEN [closedRead EXCEPT ![c] = Dialled] ELSE closedRead
    /\ UNCHANGED <<cop, cresult, idle>>
    /\ UNCHANGED notPool

\* Every step of the connections of a Transport.
PoolNext ==
    \/ GetConnRequest
    \/ \E c \in Conns : WriteRequest(c)
    \/ \E c \in Conns, keep \in BOOLEAN : ReadResponse(c, keep)
    \/ \E c \in Conns : ConnFails(c)
    \/ \E c \in Conns : ConnClose(c)

-----------------------------------------------------------------------------
(***************************************************************************)
(* Client.Fetch as the processUrl tasks call it, through Worker.Download,   *)
(* on the one Client of the one Worker.                                     *)
(***************************************************************************)

Tasks == 1..Fetchers
\* The hosts of the tasks' URLs.
FetchHosts == {"h", "g"}

\* worker := newWorker(): no task is inside Client.Fetch
ClientInit ==
    /\ fetch_lk = 0
    /\ cpc = [t \in Tasks |-> "idle"]
    /\ fpc = [t \in Tasks |-> "none"]
    /\ chost = [t \in Tasks |-> ""]
    /\ cres = [t \in Tasks |-> "none"]
    /\ ccrash = NoPanic

ClientRuns == ccrash = NoPanic

\* The task is inside its HTTP round trip: http_client.Do and the reading of
\* the body.
RoundTripping(t) == fpc[t] \in {"do", "copy"}

\* result = w.client.Fetch(req, options) is called for a URL of host h; next is
\* client.fetch_lk.Lock()
DownloadCall(t, h) ==
    /\ ClientRuns
    /\ cpc[t] = "idle"
    /\ cpc' = [cpc EXCEPT ![t] = "lock"]
    /\ chost' = [chost EXCEPT ![t] = h]
    /\ cres' = [cres EXCEPT ![t] = "none"]
    /\ UNCHANGED <<fetch_lk, fpc, ccrash>>
    /\ UNCHANGED notClient

\* client.fetch_lk.Lock(); transport.Dial = makeDialer(options);
\* go func() { rch <- client.fetch(req, options) }(); the task is in select
FetchLkLock(t) ==
    /\ ClientRuns
    /\ cpc[t] = "lock"
    /\ fetch_lk = 0
    /\ fetch_lk' = t
    /\ cpc' = [cpc EXCEPT ![t] = "select"]
    /\ fpc' = [fpc EXCEPT ![t] = "do"]
    /\ UNCHANGED <<chost, cres, ccrash>>
    /\ UNCHANGED notClient

\* resp, err := http_client.Do(req): with an error client.fetch returns the
\* error result, else it copies the body
HttpDo(t, err) ==
    /\ ClientRuns
    /\ fpc[t] = "do"
    /\ fpc' = [fpc EXCEPT ![t] = IF err THEN "send" ELSE "copy"]
    /\ cres' = [cres EXCEPT ![t] = IF err THEN "error" ELSE "none"]
    /\ UNCHANGED <<fetch_lk, cpc, chost, ccrash>>
    /\ UNCHANGED notClient

\* body_len, err = io.Copy(&buf, resp.Body); client.fetch returns its result
IoCopy(t, err) ==
    /\ ClientRuns
    /\ fpc[t] = "copy"
    /\ fpc' = [fpc EXCEPT ![t] = "send"]
    /\ cres' = [cres EXCEPT ![t] = IF err THEN "error" ELSE "ok"]
    /\ UNCHANGED <<fetch_lk, cpc, chost, ccrash>>
    /\ UNCHANGED notClient

\* rch <- result meets case result = <-rch; FetchTime is set and Client.Fetch
\* returns: the deferred client.fetch_lk.Unlock() runs
RchHandoff(t) ==
    /\ ClientRuns
    /\ cpc[t] = "select"
    /\ fpc[t] = "send"
    /\ fpc' = [fpc EXCEPT ![t] = "none"]
    /\ cpc' = [cpc EXCEPT ![t] = "returned"]
    /\ fetch_lk' = 0
    /\ UNCHANGED <<chost, cres, ccrash>>
    /\ UNCHANGED notClient

\* case <-time.After(options.TotalTimeout): client.Abort(req) panics
SelectTimeout(t) ==
    /\ ClientRuns
    /\ cpc[t] = "select"
    /\ ccrash' = "Not implemented"
    /\ UNCHANGED <<fetch_lk, cpc, fpc, chost, cres>>
    /\ UNCHANGED notClient

\* The task is done with the result; it may download again (the next hop, the
\* next URL)
DownloadReturn(t) ==
    /\ ClientRuns
    /\ cpc[t] = "returned"
    /\ cpc' = [cpc EXCEPT ![t] = "idle"]
    /\ chost' = [chost EXCEPT ![t] = ""]
    /\ cres' = [cres EXCEPT ![t] = "none"]
    /\ UNCHANGED <<fetch_lk, fpc, ccrash>>
    /\ UNCHANGED notClient

\* Every step of the tasks inside Client.Fetch.
ClientNext ==
    \/ \E t \in Tasks, h \in FetchHosts : DownloadCall(t, h)
    \/ \E t \in Tasks : FetchLkLock(t)
    \/ \E t \in Tasks, err \in BOOLEAN : HttpDo(t, err)
    \/ \E t \in Tasks, err \in BOOLEAN : IoCopy(t, err)
    \/ \E t \in Tasks : RchHandoff(t)
    \/ \E t \in Tasks : SelectTimeout(t)
    \/ \E t \in Tasks : DownloadReturn(t)

-----------------------------------------------------------------------------
Init ==
    /\ LMInit /\ SizeInit /\ DispInit /\ WorkerInit /\ TransportInit /\ PoolInit
    /\ ClientInit

\* package limitmap, callers that Release only what they acquired
Spec == Init /\ [][LMNext]_vars

\* package limitmap, callers that may Release what they do not hold
SpecUnmatched == Init /\ [][LMNextUnmatched]_vars

\* package limitmap under the Go scheduler, which runs every goroutine that
\* can run: a call of Acquire or Release that has started goes on whenever it
\* is not blocked, and every holder calls Release.  Whether new Acquire calls
\* arrive is left open.
SpecFair == Init /\ [][LMNextCalls]_vars /\ \A g \in G : WF_vars(CallStep(g))

\* package limitmap with callers of Size
SpecSize == Init /\ [][LMNextSize]_vars

\* the dispatcher
SpecDisp == Init /\ [][DispNext]_vars

\* one call of Worker.Fetch
SpecWorker == Init /\ [][WorkerNext]_vars

\* one round trip of heroshi.Transport
SpecTransport == Init /\ [][TransportNext]_vars

\* the connections and the idle pool of heroshi.Transport
SpecPool == Init /\ [][PoolNext]_vars

\* the tasks inside Client.Fetch
SpecClient == Init /\ [][ClientNext]_vars

\* The steps of goroutine stdinReader when its input ends without error.
StdinReaderStep ==
    \/ \E k \in {"blank", "bad", "url"}, eof \in BOOLEAN, fails \in 0..2 : StdinReadLine(k, eof, fails)
    \/ StdinReadEof
    \/ StdinSendReport
    \/ UrlsHandoff
    \/ StdinClose

\* The steps of the main goroutine.
MainStep ==
    \/ MainStart
    \/ UrlsHandoff
    \/ MainLimit
    \/ MainIncRecv
    \/ MainSpawn
    \/ MainRangeEnd
    \/ MainPollRecv
    \/ MainPollSend
    \/ MainClose
    \/ DoneHandoff

\* The steps of goroutine processUrl(u) when worker.Fetch returns.
TaskStep(u) ==
    \/ \E fails \in 0..2 : TaskFetched(u, fails)
    \/ TaskSend(u)
    \/ TaskDecRecv(u)
    \/ TaskDecSend(u)
    \/ TaskRelease(u)

\* The steps of goroutine reportWriter.
WriterStep ==
    \/ WriterWrite
    \/ WriterRangeEnd
    \/ DoneHandoff

\* The dispatcher when standard input ends, no SIGINT arrives and every
\* worker.Fetch returns.  The Go scheduler runs every runnable goroutine
\* and a goroutine blocked on a channel waits in the channel's FIFO queue, so it
\* is served once the channel is ready often enough: each goroutine that
\* contends for a channel is strongly fair.  reportWriter is the only receiver
\* of reports, so weak fairness is enough for it.
DispFairness ==
    /\ SF_vars(StdinReaderStep)
    /\ SF_vars(MainStep)
    /\ \A u \in Lines : SF_vars(TaskStep(u))
    /\ WF_vars(WriterStep)

SpecDispFair == Init /\ [][DispNextEof]_vars /\ DispFairness

-----------------------------------------------------------------------------
(***************************************************************************)
(* Properties of package limitmap                                           *)
(***************************************************************************)

KeyNotInMap == "LimitMap: key not in map. Possible reason: Release without Acquire."

\* C1: when every goroutine Releases only after its own Acquire returned, every
\* semaphore's value stays within 0..max in every reachable state, also when a
\* goroutine parked in Acquire is woken while the semaphore is full again: it
\* checks the predicate again and does not increment.
C1_ValueWithinMax == \A s \in Sems : 0 <= value[s] /\ value[s] <= max[s]

\* A waiter has been woken by a Signal and the semaphore is full again (another
\* goroutine took the slot first); the woken goroutine's next step is the recheck.
C1_WokenWhileFull ==
    \E g \in G : pc[g] = "sa_woken" /\ max[l[g]] > 0 /\ value[l[g]] = max[l[g]]

\* C2: for every key, the goroutines that returned from LimitMap.Acquire(k, max)
\* and have not yet called LimitMap.Release(k) are never more than max.
C2_HoldersWithinMax == \A k \in Keys : Cardinality(Holders(k)) <= LimitOf(k)

\* The entry of a key was evicted at refs == 0 and created again by a new
\* Acquire, whose caller now holds all the slots, while the earlier Release is
\* still at work on the old semaphore.
C2_HeldAfterRecreation ==
    \E g \in G, h \in G :
        /\ pc[g] \in {"sr_lock", "sr_signal"}
        /\ limits[key[g]] # 0
        /\ limits[key[g]] # l[g]
        /\ h \in Holders(key[g])
        /\ Cardinality(Holders(key[g])) = LimitOf(key[g])

\* C3: whenever the LimitMap lock is free, a semaphore is in the map if and only
\* if its refs is positive, and once every Acquire has been matched by a Release
\* (every goroutine is outside both calls) the map is empty.
C3_PresentIffRefs ==
    lk = 0 =>
        /\ \A s \in Sems : InMap(s) <=> refs[s] > 0
        /\ (\A g \in G : pc[g] = "idle") => \A k \in Keys : limits[k] = 0

\* The lock is free, one key's entry has just been deleted by the Release that
\* brought refs to 0, and another key is present.
C3_EvictedAtZero ==
    /\ lk = 0
    /\ \E g \in G : pc[g] = "sr_lock" /\ limits[key[g]] = 0 /\ refs[l[g]] = 0
    /\ \E k \in Keys : limits[k] # 0 /\ refs[limits[k]] > 0

\* C4: Semaphore.Release called at value == 0 panics, so the process never runs
\* on, past the check of Release, with a semaphore whose value is outside 0..max.
C4_OverReleaseAborts ==
    \A s \in Sems :
        value[s] > max[s] =>
            \/ panicked # NoPanic
            \/ \E g \in G : pc[g] = "sr_signal" /\ l[g] = s

\* The step in which goroutine g enters LimitMap.Release and takes m.lk.
ReleaseEnters(g) == lk = 0 /\ lk' = g /\ pc'[g] # "a_refs"

\* C5: LimitMap.Release(key) for a key that is not in the map panics, and the
\* map, every refs, every semaphore value and the outstanding-operations counter
\* are as they were before the call.
C5_AbsentKeyPanicsFirst ==
    [][\A g \in G :
          (ReleaseEnters(g) /\ limits[key'[g]] = 0) =>
              /\ panicked' = KeyNotInMap
              /\ UNCHANGED <<limits, refs, value, wg>>]_vars

\* A Release of an absent key has ended the process.
C5_PanickedOnAbsentKey == panicked = KeyNotInMap

\* C6: LimitMap.Wait() returns only when every LimitMap.Acquire call that
\* started before the Wait call has been matched by a completed Release.
C6_WaitReturnsAfterAllPrior == wpc = "returned" => prior = {}

\* What the WaitGroup does guarantee when Wait returns: no goroutine is between
\* m.wg.Add(1) and m.wg.Done(), so none holds a slot, is blocked in
\* Semaphore.Acquire or is inside Release.
WaitReturnsWhenNoneCounted ==
    [][(wpc = "waiting" /\ wpc' = "returned") => Counted = {}]_vars

\* Positions at which a goroutine waits for, holds, or is parked on the lock
\* and condition variable of a semaphore.
SemPcs == {"sa_lock", "sa_wait", "sa_woken", "sr_lock", "sr_signal"}

\* C22: the goroutine that holds the LimitMap lock is inside the map's critical
\* section of Acquire or Release, whose next step unlocks without waiting; it
\* holds no semaphore's lock, waits for none and is parked on no condition
\* variable.  So a goroutine blocked on a full semaphore never keeps the map
\* lock from the others.
C22_MapLockNotHeldInSemaphore ==
    \A g \in G :
        /\ pc[g] \in SemPcs => lk # g
        /\ lk = g =>
              /\ pc[g] \in {"a_refs", "r_refs"}
              /\ \A s \in Sems : mu[s] # g /\ \A i \in 1..Len(wait[s]) : wait[s][i] # g

\* A goroutine is parked in Acquire on a full semaphore and another one has
\* taken the map lock for a Release of the same key.
C22_MapLockTakenWhileParked ==
    \E g \in G, h \in G :
        /\ pc[g] = "sa_wait"
        /\ value[l[g]] = max[l[g]]
        /\ lk = h
        /\ pc[h] = "r_refs"
        /\ key[h] = key[g]

\* Goroutines blocked in Semaphore.Acquire of s: parked, or woken and not yet
\* running again.
Blocked(s) == {g \in G : l[g] = s /\ pc[g] \in {"sa_wait", "sa_woken"}}

\* Wakeups of s delivered or about to be: waiters woken and not yet running,
\* and Releases that have decremented and are about to Signal.
Wakeups(s) == {g \in G : l[g] = s /\ pc[g] \in {"sa_woken", "sr_signal"}}

CountedOn(s) ==
    {g \in G : \/ l[g] = s /\ pc[g] \in {"a_add", "sa_lock", "sa_wait", "sa_woken", "r_refs"}
               \/ pc[g] = "holding" /\ limits[key[g]] = s}

\* C28: a goroutine that has obtained a semaphore in LimitMap.Acquire and is
\* about to enter, is blocked in, or has returned from its Acquire has that
\* semaphore in the map under its key, and the refs of a semaphore in the map
\* is the number of such goroutines: an evicted semaphore has no goroutine in
\* or before its Acquire.
C28_EvictedHasNoWaiter ==
    /\ \A g \in G :
          /\ pc[g] \in {"a_refs", "a_add", "sa_lock", "sa_wait", "sa_woken"} =>
                l[g] # 0 /\ limits[key[g]] = l[g]
          /\ pc[g] = "holding" => limits[key[g]] # 0
    /\ \A s \in Sems : InMap(s) => refs[s] = Cardinality(CountedOn(s))

\* A semaphore has been evicted at refs = 0 while its last Release is still at
\* work on it, and another goroutine is about to enter Acquire for the same
\* key: on the new semaphore of that key, not on the evicted one.
C28_AcquireAfterEviction ==
    \E g \in G, h \in G :
        /\ pc[g] = "sr_lock"
        /\ ~InMap(l[g])
        /\ refs[l[g]] = 0
        /\ key[h] = key[g]
        /\ pc[h] = "sa_lock"
        /\ l[h] # l[g]
        /\ limits[key[h]] = l[h]

\* C25: what Size returns: keys is the number of keys in the map and total is
\* the number of goroutines that have returned from Acquire and have not yet
\* called Release, whatever the other goroutines are in the middle of.
C25_SizeCountsHolders ==
    size # NoSize =>
        /\ size.keys \in 0..Cardinality(Keys)
        /\ size.total = sized

-----------------------------------------------------------------------------
(***************************************************************************)
(* Properties of the dispatcher                                             *)
(***************************************************************************)

\* processUrl tasks that have been spawned and have not released their slot.
InFlight == {u \in Lines : tpc[u] \in {"fetch", "send", "dec", "dec_send", "release"}}

\* worker.Fetch calls that are running.
Fetching == {u \in Lines : tpc[u] = "fetch"}

\* Number of records with key u put on the reports channel so far: those still
\* buffered and those reportWriter has taken and written.
Yield(u) == Cardinality({i \in 1..Len(reports) : reports[i] = u}) + stdout[u]

\* C7: the processUrl tasks spawned and not yet past <-limit are never more than
\* --jobs, hence no more than --jobs worker.Fetch calls run at the same time.
C7_InFlightWithinJobs ==
    /\ Cardinality(InFlight) <= Jobs
    /\ Cardinality(Fetching) <= Jobs

\* --jobs tasks are in flight and main, holding the next URL, waits for a slot.
C7_DispatchBlocked ==
    /\ Cardinality(InFlight) = Jobs
    /\ mpc = "limit"
    /\ murl # 0
    /\ limit = LimitCap

\* C8: for every URL taken from urls: never more than one record of it is put on
\* reports, none before its task sends; once the task is past its send either
\* exactly one record was put on reports (and is written when main returns), or
\* json.Marshal failed twice, nothing was put on reports and the diagnostics
\* are on standard error.
C8_OneRecordPerUrl ==
    \A u \in Lines :
        kind[u] = "url" =>
            /\ Yield(u) <= 1
            /\ tpc[u] \in {"none", "fetch", "send"} => Yield(u) = 0
            /\ tpc[u] \in {"dec", "dec_send", "release", "done"} =>
                  \/ Yield(u) = 1 /\ diag[u] <= 1
                  \/ Yield(u) = 0 /\ diag[u] = 2
            /\ mpc = "returned" => stdout[u] = Yield(u)

\* One URL's record was written to standard output and another URL's record
\* was dropped after two encoding failures.
C8_WrittenAndDropped ==
    \E u \in Lines, v \in Lines :
        /\ kind[u] = "url" /\ tpc[u] = "done" /\ stdout[u] = 1
        /\ kind[v] = "url" /\ tpc[v] = "done" /\ diag[v] = 2 /\ Yield(v) = 0

\* C9: on end-of-input (urls closed by stdinReader) reports is closed only when
\* the in-flight counter is zero and every record produced by the fetch tasks
\* and by stdinReader has been put on reports; nobody sends on reports after
\* the close.
C9_CloseAfterDrain ==
    (reportsClosed /\ urlsClosed = "stdinReader") =>
        /\ busy_count = <<0>>
        /\ \A u \in Lines : tpc[u] \notin {"fetch", "send", "dec", "dec_send"}
        /\ rpc # "send_report"
        /\ crash # "send on closed channel (reports)"

\* reports was closed after end-of-input, after a fetch task and an unparseable
\* line have each produced a record.
C9_ClosedAfterWork ==
    /\ reportsClosed
    /\ urlsClosed = "stdinReader"
    /\ \E u \in Lines : tpc[u] \in {"release", "done"} /\ Yield(u) = 1
    /\ \E i \in Lines : kind[i] = "bad" /\ Yield(i) = 1

\* C10: when standard input ends, no SIGINT arrives and every worker.Fetch
\* returns, main eventually returns, with every task past its decrement, the
\* in-flight counter at zero, reports closed and empty, every record put on
\* reports written, and reportWriter's done signal taken.
C10_TerminatesCleanly ==
    <>(/\ mpc = "returned"
       /\ \A u \in Lines : tpc[u] \in {"none", "release", "done"}
       /\ busy_count = <<0>>
       /\ reportsClosed
       /\ reports = <<>>
       /\ wrpc = "exit"
       /\ \A u \in Lines : stdout[u] = Yield(u))

\* main has returned after a fetch task and an unparseable line each had a
\* record written.
C10_ReturnedAfterWork ==
    /\ mpc = "returned"
    /\ \E u \in Lines : kind[u] = "url" /\ stdout[u] = 1
    /\ \E i \in Lines : kind[i] = "bad" /\ stdout[i] = 1

\* The panics of the channel operations that handleSigInt's close(urls) and
\* the drain after it can run into.
InterruptPanics ==
    {"close of closed channel (urls)", "send on closed channel (urls)",
     "send on closed channel (reports)"}

\* C11: once handleSigInt has taken a SIGINT and closed urls, the process does
\* not crash on the channels, and when main returns every task that was
\* spawned has finished and has its record written.
C11_InterruptDrains ==
    hpc = "done" =>
        /\ crash \notin InterruptPanics
        /\ mpc = "returned" =>
              \A u \in Lines : tpc[u] # "none" =>
                  tpc[u] \in {"release", "done"} /\ stdout[u] = Yield(u)

\* The unparseable line i has been dealt with: stdinReader is past its
\* reports <- reportJson.
Reported(i) == kind[i] = "bad" /\ (nread > i \/ rpc # "send_report")

\* What reportWriter writes for line i, given as the fields of the record.
Written(i) == ReportFields(ErrorResult(i, "parse error"), diag[i])

\* C12 as stated: for every unparseable line one record with success=false,
\* status_code=0 and the parse error as status is put on reports, no task is
\* spawned for it, and blank lines give neither a record nor a task.
C12_BadLineAlwaysReported ==
    \A i \in Lines :
        /\ Reported(i) =>
              /\ Yield(i) = 1
              /\ ~Written(i).success
              /\ Written(i).status_code = 0
              /\ Written(i).status = <<"parse error">>
              /\ tpc[i] = "none"
        /\ kind[i] = "blank" => Yield(i) = 0 /\ tpc[i] = "none"

\* C12 (amended): for every unparseable line, if json.Marshal succeeds one
\* record with success=false, status_code=0 and the parse error as status is
\* put on reports; if it fails once the record carries the encoding error as
\* status instead; if it fails twice no record is written and two diagnostics
\* are logged.  No task is spawned for the line, the reader goes on to the next
\* line unless the input ended, and blank lines give neither record nor task.
C12_BadLineReported ==
    \A i \in Lines :
        /\ Reported(i) =>
              /\ diag[i] = 0 =>
                    /\ Yield(i) = 1
                    /\ ~Written(i).success /\ Written(i).status_code = 0
                    /\ Written(i).status = <<"parse error">>
              /\ diag[i] = 1 =>
                    /\ Yield(i) = 1
                    /\ ~Written(i).success /\ Written(i).status_code = 0
                    /\ Written(i).status = <<"encoding error">>
              /\ diag[i] = 2 => Yield(i) = 0
              /\ tpc[i] = "none"
              /\ (nread = i /\ ~rEof) => rpc = "read"
        /\ kind[i] = "blank" => Yield(i) = 0 /\ tpc[i] = "none"

\* An unparseable line was reported and written, and the line after it was
\* read and dispatched as a URL.
C12_BadThenUrl ==
    \E i \in Lines, u \in Lines :
        /\ i < u
        /\ kind[i] = "bad" /\ diag[i] = 0 /\ stdout[i] = 1
        /\ kind[u] = "url" /\ tpc[u] # "none"

\* processUrl tasks that have been spawned and have not taken the counter out
\* of busy_count for their decrement.
Undecremented == {u \in Lines : tpc[u] \in {"fetch", "send", "dec"}}

C27_UrlsClosedOnce ==
    /\ crash # "close of closed channel (urls)"
    /\ crash # "send on closed channel (urls)"

-----------------------------------------------------------------------------
(***************************************************************************)
(* Properties of Worker.Fetch                                               *)
(***************************************************************************)

\* The calls of Worker.Fetch that are active.
Active == {stack[i] : i \in 1..Len(stack)}

\* The calls of Worker.Fetch that hold the result they return: the active
\* ones that have left the loop and the outermost one once it has returned.
Leaving == {f \in Active : f.pc = "end"} \cup (IF wst = "returned" THEN {finished} ELSE {})

C14_DownloadAfterAllow ==
    /\ \A f \in Active :
          (/\ f.pc \in {"download", "fetching", "abort", "after"}
           /\ ~SkipRobots
           /\ f.url.path # RobotsPath) => f.allowed
    /\ \A f \in Leaving :
          f.result.status = <<"Robots disallow">> =>
              /\ ~f.result.success
              /\ ~f.downloaded
              /\ ~f.allowed

\* Worker.Fetch followed a redirect to a URL that robots.txt disallows and
\* returned "Robots disallow" without downloading it.
C14_DisallowedAfterRedirect ==
    /\ wst = "returned"
    /\ finished.result.status = <<"Robots disallow">>
    /\ finished.ndl = 1
    /\ finished.redirect = 1

\* C15: the fetch of a /robots.txt that AskRobots makes (a nested call) never
\* has, nested inside it, another fetch of the same /robots.txt.
C15_RobotsNotFetchedWithinItself ==
    \A i \in 2..Len(stack), j \in 2..Len(stack) :
        (i < j /\ stack[i].original_url.path = RobotsPath) =>
            stack[j].original_url # stack[i].original_url

\* C16: a result whose status starts with "Robots download error: " or
\* "Robots parse error: " has success=false, and the target URL was not
\* downloaded at that hop.
C16_RobotsFailureIsFailure ==
    \A f \in Leaving :
        Head(f.result.status) \in {"Robots download error: ", "Robots parse error: "} =>
            /\ ~f.result.success
            /\ ~f.downloaded

\* C17: when the total timeout fires during a download the process does not
\* crash; Client.Fetch returns a result with success=false, status_code=0 and
\* a status that starts with "Fetch timeout:".
C17_TimeoutGivesResult ==
    /\ \A f \in Active : f.pc = "abort" => wcrash = NoPanic
    /\ \A f \in Leaving :
          Head(f.result.status) = "Fetch timeout: " =>
              ~f.result.success /\ f.result.status_code = 0

\* C18: every result Worker.Fetch returns, to its caller or to AskRobots, has
\* total_time >= fetch_time.
C18_TotalAtLeastFetch ==
    /\ wst = "returned" => finished.result.total_time >= finished.result.fetch_time
    /\ ret # NoResult => ret.total_time >= ret.fetch_time

\* Worker.Fetch returned the result of a download that took a millisecond or
\* more, after a robots.txt fetch that took time too.
C18_TimedDownload ==
    /\ wst = "returned"
    /\ finished.result.fetch_time >= 1
    /\ finished.cstarted > finished.started
    /\ finished.result.total_time >= finished.result.fetch_time

-----------------------------------------------------------------------------
(***************************************************************************)
(* Properties of heroshi.Transport                                          *)
(***************************************************************************)

-----------------------------------------------------------------------------
(***************************************************************************)
(* Properties of Client.Fetch under several tasks                           *)
(***************************************************************************)

\* C24: no lock serializes the fetches: a task that has called Client.Fetch for
\* a URL of one host is never kept waiting while another task is inside its
\* HTTP round trip to another host, so several round trips can be in progress
\* at the same time.
C24_FetchesNotSerialized ==
    \A t \in Tasks, u \in Tasks :
        (RoundTripping(t) /\ cpc[u] = "lock" /\ chost[u] # chost[t]) => fetch_lk = 0

\* What the code does instead: never more than one task is inside its round
\* trip, whatever the hosts.
OneRoundTripAtATime ==
    \A t \in Tasks, u \in Tasks : (RoundTripping(t) /\ RoundTripping(u)) => t = u

-----------------------------------------------------------------------------
(***************************************************************************)
(* Properties of the connections and the idle pool of heroshi.Transport     *)
(***************************************************************************)

=============================================================================
